---- MODULE Spec2Model ----
(***************************************************************************)
(* Model of misc/update_deprecated_exps.py: the migration of deprecated    *)
(* experiment directories (tensorboard event files, legacy text logs) to   *)
(* the current layout.                                                     *)
(*                                                                         *)
(* Three specifications share the module:                                  *)
(*   SpecDecode  parse_tboard_files applied to bounded event files         *)
(*   SpecNorm    parse_old_log applied to bounded legacy logs              *)
(*   Spec        runs of modernize_exp_dir / standardize_exp_dir over a    *)
(*               manifest, one experiment per step                         *)
(***************************************************************************)
EXTENDS Integers, Sequences, FiniteSets, TLC

(***************************************************************************)
(* Program constants.                                                      *)
(***************************************************************************)
\* line 39: if count > 1000: break
RecordCap == 1000
\* line 49: step % 2000 == 0
SubsamplePeriod == 2000
\* line 49: value[0]["tag"] != "train/loss"
DominantTag == "train/loss"

(***************************************************************************)
(* Bounds of the model.                                                    *)
(***************************************************************************)
\* event files hold 0..ShortLen records, or RecordCap-1..RecordCap+OverCap
ShortLen == 3
OverCap == 2
\* legacy logs of SpecNorm hold at most MaxLogLen lines
MaxLogLen == 3

(***************************************************************************)
(* Text lines.  A line is what the substring tests of the code can see of  *)
(* it: which "checkpoint-epoch{N}.pth" it mentions (ckpt, 0 for none),     *)
(* whether it contains "trainer", whether it contains "Training took",     *)
(* plus its payload (data, vals).                                          *)
(***************************************************************************)
Line(kind, ckpt, trainer, took, data, vals) ==
    [kind |-> kind, ckpt |-> ckpt, trainer |-> trainer, took |-> took,
     data |-> data, vals |-> vals]

\* line 33: f"This log was generated from tensorboard file {name}"
TboardProvenance(name) == Line("prov_tboard", 0, FALSE, FALSE, <<name>>, <<>>)

\* line 50: f"{ts} step: {step}, {','.join(vals)}"
Row(ts, step, vals) == Line("row", 0, FALSE, FALSE, <<ts, step>>, vals)

(***************************************************************************)
(* Event records as stored in the event file, and their decoding.          *)
(* An event has a wall_time, a step and one payload: a file_version        *)
(* header, or a summary whose values are all of one shape.                 *)
(***************************************************************************)
Event(wall_time, step, what, value) ==
    [wall_time |-> wall_time, step |-> step, what |-> what, value |-> value]

\* line 38: protobuf_to_dict lists the fields that are set; Event is a
\* proto3 message, so a scalar field holding its default (step = 0) is not
\* listed and the dict has no such key (the case line 41 tests for).
protobuf_to_dict(ev) ==
    LET keys == {"wall_time"}
                \cup (IF ev.step # 0 THEN {"step"} ELSE {})
                \cup (IF ev.what # "file_version" THEN {"summary"} ELSE {})
    IN  [k \in keys |->
           CASE k = "wall_time" -> ev.wall_time
             [] k = "step" -> ev.step
             [] k = "summary" ->
                  [value |-> [i \in 1..Len(ev.value) |->
                                [tag |-> ev.value[i][1],
                                 shape |-> ev.what,
                                 payload |-> ev.value[i][2]]]]]

\* line 44: time.strftime('%Y-%m-%d:%Hh%Mm%Ss', time.gmtime(wall_time)):
\* wall_time is kept in half seconds, the text has whole seconds.
strftime(wall_time) == wall_time \div 2

CapReached_mut(count) == count > RecordCap + 1
\* line 39
CapReached(count) == count > RecordCap

\* line 49
Subsampled(step, value) ==
    step % SubsamplePeriod = 0 \/ value[1].tag # DominantTag

\* lines 41-56: the body of the loop for one decoded record: the rows it
\* appends to gen_log (none or one) and whether the debugger is entered.
LoopBody(summary) ==
    IF "step" \notin DOMAIN summary
    THEN [rows |-> <<>>, trace |-> FALSE]
    ELSE LET step == summary["step"]
             ts == strftime(summary["wall_time"])
         IN  IF "summary" \in DOMAIN summary /\ Len(summary["summary"].value) > 0
             THEN LET value == summary["summary"].value
                  IN  IF value[1].shape = "simple_value"
                      THEN LET vals == [i \in 1..Len(value) |->
                                          <<value[i].tag, value[i].payload>>]
                           IN  IF Subsampled(step, value)
                               THEN [rows |-> <<Row(ts, step, vals)>>, trace |-> FALSE]
                               ELSE [rows |-> <<>>, trace |-> FALSE]
                      ELSE IF value[1].shape = "image"
                      THEN [rows |-> <<>>, trace |-> FALSE]
                      ELSE [rows |-> <<>>, trace |-> TRUE]
             ELSE [rows |-> <<>>, trace |-> FALSE]

\* lines 34-40, 57-58: how the iteration over the records of one event file
\* ends.  The file is [name, records, corrupt]: after its records the
\* iterator either ends or, when the tail is corrupt, raises DataLossError.
\* count is incremented once per record read, so it equals the index of
\* the record in hand; the loop breaks at the first record whose count
\* is over the cap (that record is decoded, and dropped).
Iterate(file) ==
    LET over == {c \in 1..Len(file.records) : CapReached(c)}
    IN  IF over # {}
        THEN [status |-> "break",
              count |-> CHOOSE c \in over : \A d \in over : c <= d]
        ELSE [status |-> IF file.corrupt THEN "DataLossError" ELSE "StopIteration",
              count |-> Len(file.records)]

\* lines 36-56: gen_log and the debugger flag after the iteration: the loop
\* body has run, in order, for every record read before the loop ended.
LoopResult(file, gen_log) ==
    LET end == Iterate(file)
        last == IF end.status = "break" THEN end.count - 1 ELSE end.count
        bodies == [i \in 1..last |-> LoopBody(protobuf_to_dict(file.records[i]))]
        emitting == SelectSeq(bodies, LAMBDA b : b.rows # <<>>)
    IN  [status |-> end.status,
         gen_log |-> gen_log \o [i \in 1..Len(emitting) |-> emitting[i].rows[1]],
         count |-> end.count,
         trace |-> \E i \in 1..last : bodies[i].trace]

Caught_mut(loop) == IF loop.status = "DataLossError" THEN "DataLossError" ELSE "ok"
\* lines 57-60: the loop ends by exhaustion, by break or by a DataLossError
\* that the except clause swallows; all three go on to return gen_log
Caught(loop) == "ok"

\* lines 27-60.  dir is the source directory: the set of its files named
\* events.out.tfevents.*, each [name, records, corrupt].
parse_tboard_files(dir) ==
    IF Cardinality(dir) # 1
    THEN [status |-> "AssertionError", gen_log |-> <<>>, count |-> 0,
          trace |-> FALSE]
    ELSE LET tboard_file == CHOOSE f \in dir : TRUE
             loop == LoopResult(tboard_file,
                                <<TboardProvenance(tboard_file.name)>>)
         IN  [status |-> Caught(loop), gen_log |-> loop.gen_log,
              count |-> loop.count, trace |-> loop.trace]

\* the records of a file follow a repeating pattern of record shapes;
\* record i is written at wall_time 2*i, so its row names it
PatternEvent(p, i) ==
    Event(2 * i, p.step, p.what,
          IF p.what = "file_version" THEN <<>> ELSE <<<<p.tag, i>>>>)

Shapes ==
    { [what |-> w, step |-> s, tag |-> t] :
        w \in {"simple_value"}, s \in {0, 1, SubsamplePeriod},
        t \in {DominantTag, "val/acc"} }
    \cup { [what |-> "file_version", step |-> 0, tag |-> ""],
           [what |-> "image", step |-> 1, tag |-> "img"],
           [what |-> "histo", step |-> 1, tag |-> "hist"] }

Lengths == (0..ShortLen) \cup ((RecordCap - 1)..(RecordCap + OverCap))

MkFile(p1, p2, n, corrupt) ==
    [name |-> 1,
     records |-> [i \in 1..n |-> PatternEvent(IF i % 2 = 1 THEN p1 ELSE p2, i)],
     corrupt |-> corrupt]

(***************************************************************************)
(* The legacy text-log normalizer.                                         *)
(***************************************************************************)
\* line 124: f"This log was generated from an existing log for experiemnt {timestamp}"
OldLogProvenance(timestamp) == Line("prov_old", 0, FALSE, FALSE, <<timestamp>>, <<>>)

\* line 125: "Launching experiment with config:"
ConfigHeader == Line("header", 0, FALSE, FALSE, <<>>, <<>>)

\* line 120: tag in row and "trainer" in row, tag = checkpoint-epoch{N}.pth
Present(row, fixed_epochs) == row.ckpt = fixed_epochs /\ row.trainer

SinglePresence_mut(n) == n >= 1
\* line 121: assert sum(presence) == 1
SinglePresence(n) == n = 1

\* lines 109-127.  log and config are the lines of the two files
\* (read().splitlines()); timestamp is the name of the log's directory.
parse_old_log(log, timestamp, config, fixed_epochs) ==
    LET presence == {i \in 1..Len(log) : Present(log[i], fixed_epochs)}
    IN  IF ~SinglePresence(Cardinality(presence))
        THEN [status |-> "AssertionError", gen_log |-> <<>>]
        ELSE LET pos == CHOOSE i \in presence : \A j \in presence : i <= j
                 gen_log == <<OldLogProvenance(timestamp), ConfigHeader>>
             IN  \* line 126: log[pos + 1] is read whether or not it exists
                 IF pos + 1 > Len(log)
                 THEN [status |-> "IndexError", gen_log |-> <<>>]
                 ELSE LET offset == IF log[pos + 1].took THEN 1 ELSE 0
                      IN  [status |-> "ok",
                           gen_log |-> gen_log \o config \o SubSeq(log, 1, pos + offset)]

\* the lines of a config.json of version v; the second holds the "trainer"
\* section of the configuration
ConfigLines(v) ==
    <<Line("config", 0, FALSE, FALSE, <<v, 1>>, <<>>),
      Line("config", 0, TRUE, FALSE, <<v, 2>>, <<>>)>>

\* checkpoints[key]["epoch"] of the manifest entries
Epoch == 100

LineShapes ==
    [ckpt : {0, Epoch, Epoch + 1}, trainer : BOOLEAN, took : BOOLEAN]

\* a legacy log: line i of shape shapes[i], numbered so that it is told
\* apart from every other line
MkLog(shapes) ==
    [i \in 1..Len(shapes) |->
       Line("log", shapes[i].ckpt, shapes[i].trainer, shapes[i].took, <<i>>, <<>>)]

(***************************************************************************)
(* The file system and the runs of the script.                             *)
(***************************************************************************)
\* the manifests hold NumExps experiments between them
NumExps == 2
\* the script is run at most MaxRuns times
MaxRuns == 3

Keys == 1..NumExps

VARIABLES
    dec_in, dec_out,    \* SpecDecode: an event directory, the decoder's result
    norm_in, norm_out,  \* SpecNorm: a legacy log, the normalizer's result
    pipeline,  \* key -> "dep" (experiments-deprecated.json) or "std" (experiments-non-standard.json)
    src,       \* key -> the legacy run directory checkpoints[key]["timestamp"]
    fs,        \* key -> the files of the experiment under save_dir
    run,       \* the current run of the script: phase, task, refresh, cur
    ops,       \* what the current run has done so far
    orig,      \* key -> the legacy info.log as it was before the first run
    evaluated, \* key -> the evaluation has succeeded on the present info.log
    lastDone,  \* the task of the latest run when it completed, else "none"
    nruns

dec_vars == <<dec_in, dec_out>>
norm_vars == <<norm_in, norm_out>>
run_vars == <<pipeline, src, fs, run, ops, orig, evaluated, lastDone, nruns>>
vars == <<dec_in, dec_out, norm_in, norm_out, pipeline, src, fs, run, ops, orig,
          evaluated, lastDone, nruns>>

NoFile == [exists |-> FALSE, lines |-> <<>>]
File(lines) == [exists |-> TRUE, lines |-> lines]

\* the files of an experiment under save_dir: log/key/timestamp/info.log
\* and info.log.backup; models/key/timestamp/config.json, model_best.pth
\* and checkpoint-epoch{N}.pth.  config and model hold the version of
\* their content, 0 when the file does not exist.
Files(log, config, model, ckpt, backup) ==
    [log |-> log, config |-> config, model |-> model, ckpt |-> ckpt,
     backup |-> backup]

\* evaluation(eval_config, logger=logger) logs its metrics through the logger
EvalLine == Line("eval", 0, FALSE, FALSE, <<>>, <<>>)

\* setup_logging(save_dir) and logger.info(row) for each row: the rows are
\* appended to info.log in save_dir, which is created when missing
LoggerWrite(log, rows) == File(log.lines \o rows)

ConfigCopyNeeded_mut(config_exists, refresh) == TRUE
\* line 75: if not config_path.exists() or refresh
ConfigCopyNeeded(config_exists, refresh) == ~config_exists \/ refresh

\* line 82: if not model_path.exists() or refresh
ModelCopyNeeded(model_exists, refresh) == ~model_exists \/ refresh

LogNeeded_mut(log_exists, refresh) == TRUE
\* line 88: if not dest_log.exists() or refresh
LogNeeded(log_exists, refresh) == ~log_exists \/ refresh

\* line 149: if not Path(backup_log).exists() or refresh
BackupNeeded(backup_exists, refresh) == ~backup_exists \/ refresh

\* lines 96-104, 158-165: the evaluation is run on the log in hand; when it
\* raises, the log stays as written (eval_ok is the routine's outcome)
Evaluate(f, eval_ok) ==
    IF eval_ok
    THEN [status |-> "ok", f |-> [f EXCEPT !.log = LoggerWrite(f.log, <<EvalLine>>)]]
    ELSE [status |-> "EvaluationError", f |-> f]

\* lines 65-106: the body of modernize_exp_dir's loop for one experiment
\* (the legacy directory holds its config.json and model_best.pth).
\* f: its files under save_dir; d: its legacy directory.  The result is
\* the files afterwards, the exception raised if any, and the operations
\* done ("copy" with whether the destination existed, "decode", "write",
\* "eval").
modernize_exp(key, f, d, refresh, eval_ok) ==
    LET copy_config == ConfigCopyNeeded(f.config # 0, refresh)
        copy_model == ModelCopyNeeded(f.model # 0, refresh)
        f1 == [f EXCEPT !.config = IF copy_config THEN d.config ELSE @,
                        !.model = IF copy_model THEN d.model ELSE @]
        copies == (IF copy_config
                   THEN {<<"copy", key, "config.json", f.config # 0>>} ELSE {})
                  \cup (IF copy_model
                        THEN {<<"copy", key, "model_best.pth", f.model # 0>>} ELSE {})
    IN  IF LogNeeded(f.log.exists, refresh)
        THEN LET parsed == parse_tboard_files(d.events)
             IN  IF parsed.status # "ok"
                 THEN [status |-> parsed.status, f |-> f1,
                       ops |-> copies \cup {<<"decode", key>>}]
                 ELSE LET f2 == [f1 EXCEPT !.log = LoggerWrite(@, parsed.gen_log)]
                          ev == Evaluate(f2, eval_ok)
                      IN  [status |-> ev.status, f |-> ev.f,
                           ops |-> copies \cup {<<"decode", key>>, <<"write", key>>,
                                                <<"eval", key>>}]
        ELSE [status |-> "ok", f |-> f1, ops |-> copies]

ArtifactsPresent_mut(f) == f.log.exists /\ f.config # 0
\* lines 142-144: the three assertions
ArtifactsPresent(f) == f.log.exists /\ f.config # 0 /\ f.ckpt

\* lines 135-167: the body of standardize_exp_dir's loop for one experiment
standardize_exp(key, f, epoch, refresh, eval_ok) ==
    IF ~ArtifactsPresent(f)
    THEN [status |-> "AssertionError", f |-> f, ops |-> {}]
    ELSE IF BackupNeeded(f.backup.exists, refresh)
    THEN LET f1 == [f EXCEPT !.backup = File(f.log.lines)]
             copies == {<<"copy", key, "info.log.backup", f.backup.exists>>}
             parsed == parse_old_log(f1.backup.lines, key, ConfigLines(f.config), epoch)
         IN  IF parsed.status # "ok"
             THEN [status |-> parsed.status, f |-> f1,
                   ops |-> copies \cup {<<"parse", key>>}]
             ELSE LET \* line 152: log_path.unlink(), then the logger writes
                      f2 == [f1 EXCEPT !.log = LoggerWrite(NoFile, parsed.gen_log)]
                      ev == Evaluate(f2, eval_ok)
                  IN  [status |-> ev.status, f |-> ev.f,
                       ops |-> copies \cup {<<"parse", key>>, <<"write", key>>,
                                            <<"eval", key>>}]
    ELSE [status |-> "ok", f |-> f, ops |-> {}]

\* lines 187-204: the experiments of the task's manifest, in its order
Manifest(task) ==
    {k \in Keys : pipeline[k] = IF task = "modernize" THEN "dep" ELSE "std"}

Following(task, cur) == {k \in Manifest(task) : k > cur}

First(S) == CHOOSE k \in S : \A j \in S : k <= j

(***************************************************************************)
(* Inputs: the legacy directories and logs that the manifests name.        *)
(***************************************************************************)
Ordinary == [ckpt |-> 0, trainer |-> FALSE, took |-> FALSE]
Marker == [ckpt |-> Epoch, trainer |-> TRUE, took |-> FALSE]
Took == [ckpt |-> 0, trainer |-> FALSE, took |-> TRUE]
Excess == [ckpt |-> Epoch + 1, trainer |-> TRUE, took |-> FALSE]

LegacyLogs ==
    { MkLog(<<Ordinary, Marker, Took, Excess>>),
      MkLog(<<Ordinary, Marker, Excess>>),
      MkLog(<<Ordinary, Marker>>),
      MkLog(<<Ordinary, Excess>>) }

\* a standardize experiment before the first run: the legacy log, the
\* config and the checkpoint, or one of the three missing
StdFiles ==
    { Files(File(l), 1, 0, TRUE, NoFile) : l \in LegacyLogs }
    \cup { Files(NoFile, 1, 0, TRUE, NoFile),
           Files(File(MkLog(<<Ordinary, Marker, Excess>>)), 0, 0, TRUE, NoFile),
           Files(File(MkLog(<<Ordinary, Marker, Excess>>)), 1, 0, FALSE, NoFile) }

LossRecord == [what |-> "simple_value", step |-> SubsamplePeriod, tag |-> DominantTag]
AccRecord == [what |-> "simple_value", step |-> 1, tag |-> "val/acc"]

\* the event files of a legacy directory: none, one (whole, or with a
\* corrupt tail after its first record), or two
EventDirs ==
    { {},
      {MkFile(LossRecord, AccRecord, 2, FALSE)},
      {MkFile(LossRecord, AccRecord, 1, TRUE)},
      {MkFile(LossRecord, AccRecord, 2, FALSE),
       [MkFile(LossRecord, AccRecord, 2, FALSE) EXCEPT !.name = 2]} }

NoDir == [events |-> {}, config |-> 0, model |-> 0]

IdleRun == [phase |-> "idle", task |-> "none", refresh |-> FALSE, cur |-> 0,
            rerun |-> FALSE]

RunIdleInit ==
    /\ pipeline = [k \in Keys |-> "dep"]
    /\ src = [k \in Keys |-> NoDir]
    /\ fs = [k \in Keys |-> Files(NoFile, 0, 0, FALSE, NoFile)]
    /\ run = IdleRun
    /\ ops = {}
    /\ orig = [k \in Keys |-> <<>>]
    /\ evaluated = [k \in Keys |-> FALSE]
    /\ lastDone = "none"
    /\ nruns = 0

DecIdleInit == dec_in = {} /\ dec_out = [status |-> "idle"]
NormIdleInit == norm_in = [log |-> <<>>] /\ norm_out = [status |-> "idle"]

(***************************************************************************)
(* SpecDecode                                                              *)
(***************************************************************************)
DecInit ==
    /\ \E p1 \in Shapes, p2 \in Shapes, n \in Lengths, c \in BOOLEAN, nfiles \in 0..2 :
         dec_in = IF nfiles = 0 THEN {}
                  ELSE IF nfiles = 1 THEN {MkFile(p1, p2, n, c)}
                  ELSE {MkFile(p1, p2, n, c), [MkFile(p1, p2, n, c) EXCEPT !.name = 2]}
    /\ dec_out = [status |-> "none"]
    /\ NormIdleInit
    /\ RunIdleInit

Decode ==
    /\ dec_out.status = "none"
    /\ dec_out' = parse_tboard_files(dec_in)
    /\ UNCHANGED <<dec_in, norm_vars, run_vars>>

SpecDecode == DecInit /\ [][Decode]_vars

(***************************************************************************)
(* SpecNorm                                                                *)
(***************************************************************************)
NormInit ==
    /\ \E n \in 0..MaxLogLen, c \in {<<>>, ConfigLines(1)} :
         \E shapes \in [1..n -> LineShapes] :
            norm_in = [log |-> MkLog(shapes), config |-> c,
                       epoch |-> Epoch, timestamp |-> 1]
    /\ norm_out = [status |-> "none"]
    /\ DecIdleInit
    /\ RunIdleInit

Normalize ==
    /\ norm_out.status = "none"
    /\ norm_out' = parse_old_log(norm_in.log, norm_in.timestamp, norm_in.config,
                                 norm_in.epoch)
    /\ UNCHANGED <<norm_in, dec_vars, run_vars>>

SpecNorm == NormInit /\ [][Normalize]_vars

(***************************************************************************)
(* Spec: the runs of the script                                            *)
(***************************************************************************)
Init ==
    /\ DecIdleInit
    /\ NormIdleInit
    /\ pipeline \in [Keys -> {"dep", "std"}]
    /\ src \in [Keys -> [events : EventDirs, config : {1}, model : {1}] \cup {NoDir}]
    /\ fs \in [Keys -> StdFiles \cup {Files(NoFile, 0, 0, FALSE, NoFile)}]
    /\ \A k \in Keys :
         IF pipeline[k] = "dep"
         THEN src[k] # NoDir /\ fs[k] = Files(NoFile, 0, 0, FALSE, NoFile)
         ELSE src[k] = NoDir /\ fs[k] \in StdFiles
    /\ run = IdleRun
    /\ ops = {}
    /\ orig = [k \in Keys |-> fs[k].log.lines]
    /\ evaluated = [k \in Keys |-> FALSE]
    /\ lastDone = "none"
    /\ nruns = 0

\* lines 170-204: the script is started with --task and --refresh
StartRun(task, refresh) ==
    /\ run.phase # "running"
    /\ nruns < MaxRuns
    /\ nruns' = nruns + 1
    /\ ops' = {}
    /\ run' = [phase |-> IF Manifest(task) = {} THEN "done" ELSE "running",
               task |-> task, refresh |-> refresh,
               cur |-> IF Manifest(task) = {} THEN 0 ELSE First(Manifest(task)),
               rerun |-> lastDone = task /\ ~refresh]
    /\ lastDone' = IF Manifest(task) = {} THEN task ELSE "none"
    /\ UNCHANGED <<dec_vars, norm_vars, pipeline, src, fs, orig, evaluated>>

\* one pass of the loop of the running task (lines 64-106, 134-167), with
\* the outcome of the external evaluation routine; an exception ends the run
ProcessExperiment(eval_ok) ==
    /\ run.phase = "running"
    /\ LET k == run.cur
           r == IF run.task = "modernize"
                THEN modernize_exp(k, fs[k], src[k], run.refresh, eval_ok)
                ELSE standardize_exp(k, fs[k], Epoch, run.refresh, eval_ok)
           rest == Following(run.task, k)
           phase == IF r.status # "ok" THEN "halted"
                    ELSE IF rest = {} THEN "done" ELSE "running"
       IN  /\ fs' = [fs EXCEPT ![k] = r.f]
           /\ ops' = ops \cup r.ops
           /\ evaluated' = [evaluated EXCEPT ![k] =
                              IF <<"write", k>> \in r.ops
                              THEN r.status = "ok" ELSE @]
           /\ run' = [run EXCEPT !.phase = phase,
                                 !.cur = IF phase = "running" THEN First(rest) ELSE @]
           /\ lastDone' = IF phase = "done" THEN run.task ELSE "none"
    /\ UNCHANGED <<dec_vars, norm_vars, pipeline, src, orig, nruns>>

\* between runs the legacy directories are edited: every config.json and
\* model_best.pth in them gets new content
EditSource ==
    /\ run.phase # "running"
    /\ \E k \in Keys : pipeline[k] = "dep" /\ src[k].config = 1
    /\ src' = [k \in Keys |->
                 IF pipeline[k] = "dep" THEN [src[k] EXCEPT !.config = 2, !.model = 2]
                 ELSE src[k]]
    /\ lastDone' = "none"
    /\ UNCHANGED <<dec_vars, norm_vars, pipeline, fs, run, ops, orig, evaluated, nruns>>

Next ==
    \/ \E task \in {"modernize", "standardize"}, refresh \in BOOLEAN :
         StartRun(task, refresh)
    \/ \E eval_ok \in BOOLEAN : ProcessExperiment(eval_ok)
    \/ EditSource

Spec == Init /\ [][Next]_vars
(***************************************************************************)
(* Properties of parse_tboard_files, under SpecDecode.                     *)
(***************************************************************************)
DecFile == CHOOSE f \in dec_in : TRUE

\* the row the format string of line 50 gives for a scalar record
RowOf(ev) == Row(ev.wall_time \div 2, ev.step, ev.value)

\* C5: the decoder stops after 1000 records: the returned log has at most
\* 1001 lines (the provenance line and one row per record), and every row
\* is the row of one of the first 1000 records of the stream.
C5_RecordCap ==
    dec_out.status = "ok" =>
        /\ Len(dec_out.gen_log) <= RecordCap + 1
        /\ \A i \in 2..Len(dec_out.gen_log) :
             LET j == dec_out.gen_log[i].data[1]
             IN  /\ j \in 1..RecordCap
                 /\ j <= Len(DecFile.records)
                 /\ dec_out.gen_log[i] = RowOf(DecFile.records[j])

\* a stream longer than the cap, every record of which gives a row, has
\* been decoded to exactly 1001 lines
C5_Witness ==
    /\ dec_out.status = "ok"
    /\ Len(DecFile.records) > RecordCap
    /\ Len(dec_out.gen_log) = RecordCap + 1

\* a stream is well formed when it is whole, within the cap and holds
\* version headers, scalars and images only
WellFormed(file) ==
    /\ ~file.corrupt
    /\ Len(file.records) <= RecordCap
    /\ \A i \in 1..Len(file.records) :
         file.records[i].what \in {"file_version", "simple_value", "image"}

\* the subsampling policy as the specification states it
Policy(ev) ==
    /\ ev.what = "simple_value"
    /\ ev.value[1][1] = DominantTag => ev.step % SubsamplePeriod = 0

PolicyRows(records) ==
    LET kept == SelectSeq(records, Policy)
    IN  [i \in 1..Len(kept) |-> RowOf(kept[i])]

\* C6: for a well-formed stream the log is the provenance line followed,
\* in stream order, by one row for every scalar record of the dominant tag
\* whose step is a multiple of 2000 (step 0 included) and for every scalar
\* record of any other tag.
C6_Subsampling ==
    (dec_out.status = "ok" /\ WellFormed(DecFile)) =>
        dec_out.gen_log = <<TboardProvenance(DecFile.name)>> \o PolicyRows(DecFile.records)

(***************************************************************************)
(* Properties of parse_old_log, under SpecNorm.                            *)
(***************************************************************************)
Markers ==
    {i \in 1..Len(norm_in.log) :
       norm_in.log[i].ckpt = norm_in.epoch /\ norm_in.log[i].trainer}

NormDone == norm_out.status \notin {"none", "idle"}

\* C3: with exactly one marker line, at any position pos, the result is
\* the provenance line, the config header, the config lines, the log lines
\* up to pos, and line pos+1 exactly when it holds "Training took".
C3_Truncation ==
    (NormDone /\ Cardinality(Markers) = 1) =>
        LET pos == CHOOSE i \in Markers : TRUE
            log == norm_in.log
            extra == IF pos < Len(log) /\ log[pos + 1].took
                     THEN <<log[pos + 1]>> ELSE <<>>
        IN  /\ norm_out.status = "ok"
            /\ norm_out.gen_log =
                 <<OldLogProvenance(norm_in.timestamp), ConfigHeader>>
                 \o norm_in.config \o SubSeq(log, 1, pos) \o extra

\* C4: with no marker line or with two or more the normalizer fails on its
\* assertion and returns no log; it returns a log only with exactly one.
C4_BadMarkerCount ==
    NormDone =>
        /\ Cardinality(Markers) # 1 =>
             norm_out.status = "AssertionError" /\ norm_out.gen_log = <<>>
        /\ norm_out.status = "ok" => Cardinality(Markers) = 1

\* a log with two marker lines has been refused
C4_Witness ==
    /\ norm_out.status = "AssertionError"
    /\ Cardinality(Markers) >= 2
(***************************************************************************)
(* Properties of the runs, under Spec.                                     *)
(***************************************************************************)
Copies(o) == {op \in o : op[1] = "copy"}

\* C1: once a run of a task has completed, a further run of the same task
\* on the same inputs with refresh = False changes no file under save_dir,
\* decodes no event file, parses no legacy log, copies nothing and does not
\* call the evaluation, for every experiment of the manifest.
C1_RerunIsNoOp ==
    [][(run.phase = "running" /\ run.rerun) =>
          (fs' = fs /\ ops' = {} /\ run'.phase # "halted")]_vars

\* a run of a task after a completed one has gone through a manifest whose
\* experiments were migrated and evaluated before
C1_Witness ==
    /\ run.rerun
    /\ run.phase = "done"
    /\ Manifest(run.task) # {}
    /\ \A k \in Manifest(run.task) : fs[k].log.exists /\ evaluated[k]

\* C2: in a run with refresh = False every copy goes to a destination that
\* does not exist, so config.json, model_best.pth and info.log.backup keep
\* their content once they exist; a copy onto an existing destination
\* happens only in a run with refresh = True.
C2_NoOverwrite ==
    [][(run.phase = "running" /\ ~run.refresh) =>
          /\ \A k \in Keys :
               /\ fs[k].config # 0 => fs'[k].config = fs[k].config
               /\ fs[k].model # 0 => fs'[k].model = fs[k].model
               /\ fs[k].backup.exists => fs'[k].backup = fs[k].backup
          /\ \A op \in Copies(ops') : ~op[4]]_vars

\* a run without refresh has completed over an experiment whose copied
\* config and model differ from the edited source: they were kept
C2_Witness ==
    /\ run.phase = "done"
    /\ ~run.refresh
    /\ \E k \in Manifest(run.task) :
         /\ pipeline[k] = "dep"
         /\ fs[k].config \notin {0, src[k].config}
         /\ fs[k].model \notin {0, src[k].model}

\* the inputs of every experiment of the manifest are in order
CausesRemoved(task) ==
    \A k \in Manifest(task) :
        IF pipeline[k] = "dep"
        THEN Cardinality(src[k].events) = 1
        ELSE /\ fs[k].log.exists /\ fs[k].config # 0 /\ fs[k].ckpt
             /\ parse_old_log(orig[k], k, ConfigLines(fs[k].config), Epoch).status = "ok"

\* the canonical log of the experiment has been generated and the
\* evaluation has been run on it
Complete(k) ==
    /\ fs[k].log.exists
    /\ \E i \in 1..Len(fs[k].log.lines) :
         fs[k].log.lines[i].kind \in {"prov_tboard", "prov_old"}
    /\ evaluated[k]

\* C7: whatever halted earlier runs, a run with refresh = False that goes
\* through the manifest, with the inputs in order, leaves every experiment
\* of the manifest complete.
C7_Rerunnable ==
    (run.phase = "done" /\ ~run.refresh /\ CausesRemoved(run.task)) =>
        \A k \in Manifest(run.task) : Complete(k)

\* C8: the backup holds the legacy log as it was before the first run, and
\* info.log, once rewritten, is the normalization of that log (followed by
\* what the evaluation logged).
C8_BackupPreservesOriginal ==
    \A k \in Keys :
        (pipeline[k] = "std" /\ fs[k].backup.exists) =>
            LET normal == parse_old_log(orig[k], k, ConfigLines(fs[k].config),
                                        Epoch).gen_log
            IN  /\ fs[k].backup.lines = orig[k]
                /\ fs[k].log.lines \in {orig[k], normal, normal \o <<EvalLine>>}

\* C9: standardize stops at an experiment whose log, config or checkpoint
\* is missing without touching any file; modernize stops at an experiment
\* whose directory holds no or several event files when it has to decode
\* them, writing no info.log and running no evaluation for it; the
\* experiments handled before keep their files, and after the stop no
\* experiment is processed.
C9_FatalHalts ==
    [][/\ (run.phase = "running" /\ run.task = "standardize"
             /\ ~(fs[run.cur].log.exists /\ fs[run.cur].config # 0 /\ fs[run.cur].ckpt)) =>
            (run'.phase = "halted" /\ fs' = fs /\ ops' = ops /\ evaluated' = evaluated)
       /\ (run.phase = "running" /\ run.task = "modernize"
             /\ Cardinality(src[run.cur].events) # 1
             /\ (~fs[run.cur].log.exists \/ run.refresh)) =>
            /\ run'.phase = "halted"
            /\ fs'[run.cur].log = fs[run.cur].log
            /\ <<"write", run.cur>> \notin ops' /\ <<"eval", run.cur>> \notin ops'
            /\ \A j \in Keys \ {run.cur} : fs'[j] = fs[j]
            /\ ops \subseteq ops'
       /\ run.phase = "halted" => (fs' = fs /\ evaluated' = evaluated)]_vars

\* a standardize run has stopped at an experiment with a missing file,
\* with a later experiment of the manifest left as it was
C9_Witness ==
    /\ run.phase = "halted"
    /\ run.task = "standardize"
    /\ ~(fs[run.cur].log.exists /\ fs[run.cur].config # 0 /\ fs[run.cur].ckpt)
    /\ \E j \in Following(run.task, run.cur) : fs[j].log.lines = orig[j] /\ ~fs[j].backup.exists

\* the rows of the records that carry a step, by the policy of line 49
EmittedRows(records) ==
    PolicyRows(SelectSeq(records, LAMBDA ev : ev.step # 0))

CorruptDir(d) == Cardinality(d.events) = 1 /\ \A f \in d.events : f.corrupt

\* C10: when the event file of an experiment has a corrupt tail, decoding
\* does not fail: modernize writes the provenance line and the rows of
\* the records before the tail to info.log and calls the evaluation, as for
\* a whole stream.
C10_CorruptTail ==
    [][(run.phase = "running" /\ run.task = "modernize" /\ CorruptDir(src[run.cur])
          /\ (~fs[run.cur].log.exists \/ run.refresh)) =>
          LET k == run.cur
              file == CHOOSE f \in src[k].events : TRUE
              gen_log == <<TboardProvenance(file.name)>> \o EmittedRows(file.records)
          IN  /\ {<<"decode", k>>, <<"write", k>>, <<"eval", k>>} \subseteq ops'
              /\ \/ /\ fs'[k].log = LoggerWrite(fs[k].log, gen_log \o <<EvalLine>>)
                    /\ run'.phase # "halted"
                 \/ /\ fs'[k].log = LoggerWrite(fs[k].log, gen_log)
                    /\ run'.phase = "halted"]_vars

\* an experiment whose event file has a corrupt tail has been migrated: its
\* log holds the row decoded before the tail, and it has been evaluated
C10_Witness ==
    \E k \in Keys :
        /\ pipeline[k] = "dep"
        /\ CorruptDir(src[k])
        /\ <<"eval", k>> \in ops
        /\ evaluated[k]
        /\ Len(fs[k].log.lines) >= 3
====
